---- MODULE Spec2Model ----
(***************************************************************************)
(* The history list of electrumsv/gui/qt/history_list.py: the item model   *)
(* HistoryItemModel (a list of HistoryLine kept with a running balance)    *)
(* and the HistoryView that feeds it from wallet events.                   *)
(*                                                                         *)
(* Rows are 0-based as in the source; TLA+ sequences are 1-based, so row r *)
(* of the source is element r+1 of _data and _balances.  A timestamp of 0  *)
(* stands for every falsy timestamp of the source (None, False, 0).        *)
(***************************************************************************)
EXTENDS Integers, Sequences, FiniteSets, TLC

VARIABLES
    _data,              \* HistoryItemModel._data, the same list object as HistoryView._data
    _balances,          \* HistoryItemModel._balances
    _height,            \* HistoryItemModel._height
    _display_height,    \* HistoryView._display_height
    enabled,            \* HistoryView.isEnabled()
    op,                 \* the last call made: [name, arg]
    ret,                \* what that call returned ("None" also when it raised)
    raised,             \* the exception that call raised, "" when it returned
    emitted,            \* the Qt signals that call emitted, each with the lists as they were then
    before,             \* _data and _balances as that call found them (a full load, which
                        \* reads neither, leaves this empty)
    nops                \* calls made since the last full load

vars == <<_data, _balances, _height, _display_height, enabled, op, ret, raised, emitted,
          before, nops>>

-----------------------------------------------------------------------------
(* Bounds of the exploration.                                              *)

\* Most rows the list grows to by insertion.
MaxRows == 3
\* Most calls explored after each full load.
MaxOps == 2

-----------------------------------------------------------------------------
(* Program constants.                                                      *)

ICON_COLUMN == 0
STATUS_COLUMN == 1
DESCRIPTION_COLUMN == 2
AMOUNT_COLUMN == 3
BALANCE_COLUMN == 4
FIAT_AMOUNT_COLUMN == 5
FIAT_BALANCE_COLUMN == 6

LI_HASH == 0
LI_HEIGHT == 1
LI_TIMESTAMP == 2
LI_VALUE == 3
LI_POSITION == 4

\* The literal 1e9 of _get_sort_key.
BIG_CONSTANT == 1000000000

\* The icons data() indexes by status.
TX_ICONS == <<"unconfirmed.png", "unconfirmed.png", "unconfirmed.png", "unconfirmed.png",
              "clock1.png", "clock2.png", "clock3.png", "clock4.png", "clock5.png",
              "confirmed.png">>

\* len(COLUMN_NAMES)
COLUMN_NAMES == <<"", "Date", "Description", "Amount", "Balance", "", "">>

-----------------------------------------------------------------------------
(* Input domains.                                                          *)

Ids == {"tx1", "tx2", "tx3"}
Heights == {-2, 0, 2}
Timestamps == {0, 1000}
Values == {-2, 5}

HistoryLine(tx_hash, height, timestamp, value, position) ==
    [tx_hash |-> tx_hash, height |-> height, timestamp |-> timestamp,
     value |-> value, position |-> position]

\* The lines handed to add_line.  Height 1 and position 1 come in with the
\* snapshots below.
Lines == [tx_hash : Ids, height : Heights, timestamp : Timestamps,
          value : Values, position : {0}]

\* The lists handed to set_data: empty, sorted, unsorted, with equal keys,
\* with unconfirmed rows at the tail, and with a repeated id.
Snapshots ==
    { <<>>,
      <<HistoryLine("tx1", 1, 1000, 5, 0)>>,
      <<HistoryLine("tx1", 1, 1000, 5, 0), HistoryLine("tx2", 2, 1000, -2, 0)>>,
      <<HistoryLine("tx2", 2, 1000, -2, 0), HistoryLine("tx1", 1, 1000, 5, 0)>>,
      <<HistoryLine("tx1", 1, 1000, 5, 0), HistoryLine("tx3", 1, 1000, 5, 1),
        HistoryLine("tx2", 2, 1000, -2, 0)>>,
      <<HistoryLine("tx1", 1, 1000, 5, 0), HistoryLine("tx2", 1, 0, -2, 0)>>,
      <<HistoryLine("tx1", 2, 1000, 5, 0), HistoryLine("tx2", 0, 0, -2, 0),
        HistoryLine("tx3", -2, 0, 5, 0)>>,
      <<HistoryLine("tx3", 0, 0, 5, 0), HistoryLine("tx1", 1, 0, -2, 0)>>,
      <<HistoryLine("tx1", 1, 1000, 5, 0), HistoryLine("tx1", 2, 1000, -2, 0)>> }

\* The dicts handed to HistoryItemModel.update_line: none, height and
\* timestamp (what the view sends), a value, a position, a height with a
\* value.
ValueMaps ==
    { <<>> }
    \cup { (LI_HEIGHT :> h) @@ (LI_TIMESTAMP :> t) : h \in Heights, t \in Timestamps }
    \cup { (LI_VALUE :> v) : v \in Values }
    \cup { (LI_POSITION :> 1) }
    \cup { (LI_HEIGHT :> 0) @@ (LI_VALUE :> v) : v \in Values }

-----------------------------------------------------------------------------
(* Signals.                                                                *)

\* One emitted signal: its name, the rows and columns it covers, and the
\* lists an observer reads while it is delivered.
Signal(name, top, bottom, left, right, d, b) ==
    [signal |-> name, top |-> top, bottom |-> bottom, left |-> left, right |-> right,
     data |-> d, balances |-> b]

-----------------------------------------------------------------------------
(* HistoryItemModel.                                                       *)

\* sum(line.value for line in self._data)
RECURSIVE SumValues(_)
SumValues(d) == IF d = <<>> THEN 0 ELSE d[1].value + SumValues(Tail(d))

\* [0] * len(self._data)
_reset_balances(d) == [i \in 1..Len(d) |-> 0]

\* The loops of _calculate_balances: from row i on, add each value to the
\* running balance and store it.
RECURSIVE Accumulate(_, _, _, _)
Accumulate(d, b, i, balance) ==
    IF i >= Len(d) THEN b
    ELSE LET next == balance + d[i + 1].value
         IN  Accumulate(d, [b EXCEPT ![i + 1] = next], i + 1, next)

\* _calculate_balances starting a partial recomputation from a balance of 0.
CalculateBalancesSeedZero(d, b, from_row) ==
    IF Len(d) = 0 THEN [balances |-> b, raised |-> ""]
    ELSE LET nb == Accumulate(d, b, from_row, 0)
         IN  [balances |-> nb,
              raised |-> IF SumValues(d) # nb[Len(nb)]
                         THEN "Invalid balance detected" ELSE ""]

\* _calculate_balances comparing the sum with the first balance.
CalculateBalancesChecksFirst(d, b, from_row) ==
    IF Len(d) = 0 THEN [balances |-> b, raised |-> ""]
    ELSE LET nb == IF from_row = 0 THEN Accumulate(d, b, 0, 0)
                   ELSE Accumulate(d, b, from_row, b[from_row])
         IN  [balances |-> nb,
              raised |-> IF SumValues(d) # nb[1]
                         THEN "Invalid balance detected" ELSE ""]

\* _calculate_balances seeding a partial recomputation with the balance of
\* from_row itself.
CalculateBalancesSeededOneLate(d, b, from_row) ==
    IF Len(d) = 0 THEN [balances |-> b, raised |-> ""]
    ELSE LET nb == IF from_row = 0 THEN Accumulate(d, b, 0, 0)
                   ELSE Accumulate(d, b, from_row, b[from_row + 1])
         IN  [balances |-> nb,
              raised |-> IF SumValues(d) # nb[Len(nb)]
                         THEN "Invalid balance detected" ELSE ""]

_calculate_balances(d, b, from_row) ==
    IF Len(d) = 0 THEN [balances |-> b, raised |-> ""]
    ELSE LET nb == IF from_row = 0 THEN Accumulate(d, b, 0, 0)
                   ELSE Accumulate(d, b, from_row, b[from_row])
         IN  [balances |-> nb,
              raised |-> IF SumValues(d) # nb[Len(nb)]
                         THEN "Invalid balance detected" ELSE ""]

\* _get_sort_key adding a negative height to 1e9 where it subtracts it.
GetSortKeySignSlip(line) ==
    IF line.timestamp # 0 THEN <<line.height, line.position>>
    ELSE IF line.height # 0
         THEN (IF line.height > 0 THEN <<line.height, 0>>
               ELSE <<BIG_CONSTANT + line.height, 0>>)
         ELSE <<BIG_CONSTANT + 1, 0>>

_get_sort_key(line) ==
    IF line.timestamp # 0 THEN <<line.height, line.position>>
    ELSE IF line.height # 0
         THEN (IF line.height > 0 THEN <<line.height, 0>>
               ELSE <<BIG_CONSTANT - line.height, 0>>)
         ELSE <<BIG_CONSTANT + 1, 0>>

\* The comparison of _get_match_row made strict: new_key > key.
KeyGT(a, b) == a[1] > b[1] \/ (a[1] = b[1] /\ a[2] > b[2])

\* Python's order on the key tuples: new_key >= key.
KeyGE(a, b) == a[1] > b[1] \/ (a[1] = b[1] /\ a[2] >= b[2])

\* The search of _get_row answering with the last row, where the loop ended,
\* in place of None.
RECURSIVE RowScanFallsThrough(_, _, _)
RowScanFallsThrough(d, tx_hash, i) ==
    IF i >= Len(d) THEN Len(d) - 1
    ELSE IF d[i + 1].tx_hash = tx_hash THEN i ELSE RowScanFallsThrough(d, tx_hash, i + 1)

RECURSIVE RowScan(_, _, _)
RowScan(d, tx_hash, i) ==
    IF i >= Len(d) THEN -1
    ELSE IF d[i + 1].tx_hash = tx_hash THEN i ELSE RowScan(d, tx_hash, i + 1)

\* _get_row starting its search at the second row.
GetRowFromSecond(d, tx_hash) == RowScan(d, tx_hash, 1)

\* The row of the first line with the hash, -1 for None.
_get_row(d, tx_hash) == RowScan(d, tx_hash, 0)

RECURSIVE MatchScan(_, _, _)
MatchScan(d, new_key, i) ==
    IF i < 0 THEN -1
    ELSE IF KeyGE(new_key, _get_sort_key(d[i + 1])) THEN i
         ELSE MatchScan(d, new_key, i - 1)

\* _get_match_row taking the last row whatever the keys.
GetMatchRowLast(d, line) == Len(d) - 1

_get_match_row(d, line) == MatchScan(d, _get_sort_key(line), Len(d) - 1)

\* list.insert(row, x)
ListInsert(s, row, x) == SubSeq(s, 1, row) \o <<x>> \o SubSeq(s, row + 1, Len(s))

\* del list[row] taking the row after the one asked for.
ListDeleteNext(s, row) == SubSeq(s, 1, row + 1) \o SubSeq(s, row + 3, Len(s))

\* del list[row]
ListDelete(s, row) == SubSeq(s, 1, row) \o SubSeq(s, row + 2, Len(s))

_add_line(d, b, line) ==
    LET insert_row == _get_match_row(d, line) + 1
        row_count == Len(d)
        nd == IF insert_row = row_count THEN Append(d, line)
              ELSE ListInsert(d, insert_row, line)
        nb == IF insert_row = row_count
              THEN Append(b, IF Len(b) # 0 THEN b[Len(b)] ELSE 0)
              ELSE ListInsert(b, insert_row, 0)
    IN  [data |-> nd, balances |-> nb, insert_row |-> insert_row,
         emitted |-> << Signal("rowsAboutToBeInserted", insert_row, insert_row, 0, 0, d, b),
                        Signal("rowsInserted", insert_row, insert_row, 0, 0, nd, nb) >>]

\* _remove_line without its del self._balances[row].
RemoveLineKeepsBalance(d, b, row) ==
    LET nd == ListDelete(d, row)
    IN  [data |-> nd, balances |-> b, line |-> d[row + 1],
         emitted |-> << Signal("rowsAboutToBeRemoved", row, row, 0, 0, d, b),
                        Signal("rowsRemoved", row, row, 0, 0, nd, b) >>]

_remove_line(d, b, row) ==
    LET nd == ListDelete(d, row)
        nb == ListDelete(b, row)
    IN  [data |-> nd, balances |-> nb, line |-> d[row + 1],
         emitted |-> << Signal("rowsAboutToBeRemoved", row, row, 0, 0, d, b),
                        Signal("rowsRemoved", row, row, 0, 0, nd, nb) >>]

\* set_data extending the list the model holds in place of replacing it.
SetDataExtends(data) ==
    LET all == _data \o data
        c == _calculate_balances(all, _reset_balances(all), 0)
    IN  [data |-> all, balances |-> c.balances, ret |-> "None", raised |-> c.raised,
         emitted |-> <<>>]

set_data(data) ==
    LET c == _calculate_balances(data, _reset_balances(data), 0)
    IN  [data |-> data, balances |-> c.balances, ret |-> "None", raised |-> c.raised,
         emitted |-> <<>>]

\* add_line signalling the balance of the inserted row alone.
AddLineReportsInsertedRow(d, b, line) ==
    LET a == _add_line(d, b, line)
        c == _calculate_balances(a.data, a.balances, a.insert_row)
    IN  [data |-> a.data, balances |-> c.balances, ret |-> "None", raised |-> c.raised,
         emitted |-> IF c.raised # "" THEN a.emitted
                     ELSE Append(a.emitted,
                                 Signal("dataChanged", a.insert_row, a.insert_row,
                                        BALANCE_COLUMN, BALANCE_COLUMN, a.data, c.balances))]

add_line(d, b, line) ==
    LET a == _add_line(d, b, line)
        c == _calculate_balances(a.data, a.balances, a.insert_row)
        row_count == Len(a.data)
    IN  [data |-> a.data, balances |-> c.balances, ret |-> "None", raised |-> c.raised,
         emitted |-> IF c.raised # "" THEN a.emitted
                     ELSE Append(a.emitted,
                                 Signal("dataChanged", a.insert_row, row_count - 1,
                                        BALANCE_COLUMN, BALANCE_COLUMN, a.data, c.balances))]

\* l[value_index] = value for every item of values, then HistoryLine(*l)
ApplyValues(line, values) ==
    LET at(i, old) == IF i \in DOMAIN values THEN values[i] ELSE old
    IN  HistoryLine(at(LI_HASH, line.tx_hash), at(LI_HEIGHT, line.height),
                    at(LI_TIMESTAMP, line.timestamp), at(LI_VALUE, line.value),
                    at(LI_POSITION, line.position))

\* update_line comparing the lines where it compares their keys.
LineChanged(old_line, new_line) == old_line # new_line

\* old_key != new_key
KeyChanged(old_line, new_line) == _get_sort_key(old_line) # _get_sort_key(new_line)

\* update_line recomputing from the new row only.
MoveFromInsertRow(insert_row, row) == insert_row

\* min(insert_row, row)
MoveFromRow(insert_row, row) == IF insert_row < row THEN insert_row ELSE row

update_line(d, b, tx_hash, values) ==
    LET row == _get_row(d, tx_hash)
    IN  IF row = -1
        THEN [data |-> d, balances |-> b, ret |-> "False", raised |-> "", emitted |-> <<>>]
        ELSE
        LET old_line == d[row + 1]
            new_line == ApplyValues(old_line, values)
            d1 == IF DOMAIN values # {} THEN [d EXCEPT ![row + 1] = new_line] ELSE d
            changed == [data |-> d1, balances |-> b, ret |-> "True", raised |-> "",
                        emitted |-> << Signal("dataChanged", row, row, 0,
                                              Len(COLUMN_NAMES) - 1, d1, b) >>]
        IN  IF DOMAIN values # {} /\ KeyChanged(old_line, new_line)
            THEN LET r == _remove_line(d1, b, row)
                     a == _add_line(r.data, r.balances, new_line)
                     c == _calculate_balances(a.data, a.balances,
                                              MoveFromRow(a.insert_row, row))
                 IN  [data |-> a.data, balances |-> c.balances,
                      ret |-> IF c.raised # "" THEN "None" ELSE "True",
                      raised |-> c.raised, emitted |-> r.emitted \o a.emitted]
            ELSE changed

-----------------------------------------------------------------------------
(* The model called directly.                                              *)

Call(name, arg) == [name |-> name, arg |-> arg]

Init ==
    /\ _data = <<>>
    /\ _balances = <<>>
    /\ _height = 0
    /\ _display_height = 0
    /\ enabled = TRUE
    /\ op = Call("__init__", <<>>)
    /\ ret = "None"
    /\ raised = ""
    /\ emitted = <<>>
    /\ before = [data |-> <<>>, balances |-> <<>>]
    /\ nops = 0

\* What a call leaves in the model's lists and in the record of the call;
\* reload says that the call replaced the lists by a full load.
Leaves(r, reload) ==
    /\ nops < MaxOps
    /\ _data' = r.data
    /\ _balances' = r.balances
    /\ ret' = r.ret
    /\ raised' = r.raised
    /\ emitted' = r.emitted
    /\ before' = IF reload THEN [data |-> <<>>, balances |-> <<>>]
                 ELSE [data |-> _data, balances |-> _balances]
    /\ nops' = IF reload THEN 0 ELSE nops + 1

SetData ==
    \E lines \in Snapshots, height \in {5} :
        /\ Leaves(set_data(lines), TRUE)
        /\ _height' = height
        /\ op' = Call("set_data", lines)
        /\ UNCHANGED <<_display_height, enabled>>

AddLine ==
    \E line \in Lines :
        /\ Len(_data) < MaxRows
        /\ Leaves(add_line(_data, _balances, line), FALSE)
        /\ op' = Call("add_line", line)
        /\ UNCHANGED <<_height, _display_height, enabled>>

UpdateLine ==
    \E tx_hash \in Ids, values \in ValueMaps :
        /\ Leaves(update_line(_data, _balances, tx_hash, values), FALSE)
        /\ op' = Call("update_line", [tx_hash |-> tx_hash, values |-> values])
        /\ UNCHANGED <<_height, _display_height, enabled>>

RemoveLine ==
    \E row \in 0..(Len(_data) - 1) :
        /\ LET r == _remove_line(_data, _balances, row)
           IN  Leaves([data |-> r.data, balances |-> r.balances, ret |-> r.line,
                       raised |-> "", emitted |-> r.emitted], FALSE)
        /\ op' = Call("_remove_line", row)
        /\ UNCHANGED <<_height, _display_height, enabled>>

CalculateBalances ==
    \E from_row \in 0..Len(_data) :
        /\ Len(_balances) = Len(_data)
        /\ LET c == _calculate_balances(_data, _balances, from_row)
           IN  Leaves([data |-> _data, balances |-> c.balances, ret |-> "None",
                       raised |-> c.raised, emitted |-> <<>>], FALSE)
        /\ op' = Call("_calculate_balances", from_row)
        /\ UNCHANGED <<_height, _display_height, enabled>>

Next == SetData \/ AddLine \/ UpdateLine \/ RemoveLine \/ CalculateBalances

Spec == Init /\ [][Next]_vars

-----------------------------------------------------------------------------
(* The wallet, as the view sees it.                                        *)

\* wallet.get_local_height()
ChainHeights == {5, 6, 7}

\* wallet.get_tx_height(tx_hash): (height, conf, timestamp)
\* for an unconfirmed parent, an unconfirmed, an unverified and a verified
\* transaction.
TxHeights == { <<-2, 0, 0>>, <<0, 0, 0>>, <<2, 0, 0>>, <<2, 1, 1000>> }

\* wallet.get_history(domain): lists of (tx_hash, height, conf, timestamp,
\* value, balance) with pairwise distinct hashes, in the wallet's order and
\* out of it.
WalletHistories ==
    { <<>>,
      << <<"tx1", 2, 1, 1000, 5, 5>> >>,
      << <<"tx1", 1, 1, 1000, 5, 5>>, <<"tx2", 2, 1, 1000, -2, 3>> >>,
      << <<"tx1", 2, 1, 1000, 5, 5>>, <<"tx2", 0, 0, 0, -2, 3>> >>,
      << <<"tx1", 1, 1, 1000, 5, 5>>, <<"tx2", 2, 1, 1000, -2, 3>>,
         <<"tx3", -2, 0, 0, 5, 8>> >>,
      << <<"tx2", 0, 0, 0, -2, -2>>, <<"tx1", 2, 1, 1000, 5, 3>> >> }

\* The names history_updated_signal carries, one for each branch of
\* _on_history_update_event.
EventNames ==
    { "activate", "fiat_ccy_changed", "num_zeros_changed", "import_labels", "update_tabs" }

\* The update dicts labels_changed_signal carries, as their keys in order.
LabelUpdates == { <<>>, <<"tx1">>, <<"tx2", "tx3">>, <<"tx3", "tx1">> }

-----------------------------------------------------------------------------
(* HistoryView.                                                            *)

_create_data_snapshot(source_lines) ==
    [i \in 1..Len(source_lines) |->
        HistoryLine(source_lines[i][1], source_lines[i][2], source_lines[i][4],
                    source_lines[i][5], 0)]

update_all(d, b, source_lines) ==
    LET s == set_data(_create_data_snapshot(source_lines))
    IN  [s EXCEPT !.emitted = << Signal("modelReset", 0, 0, 0, 0, s.data, s.balances) >>]

Unchanged(d, b) == [data |-> d, balances |-> b, ret |-> "None", raised |-> "", emitted |-> <<>>]

\* The loop of _on_network_chain_event: the first row, from the tail, of the
\* rows not more than 6 below the chain height.
RECURSIVE StartRowScan(_, _, _, _)
StartRowScan(d, display_height, i, start_row) ==
    IF i < 0 THEN start_row
    ELSE IF display_height - d[i + 1].height > 6 THEN start_row
         ELSE StartRowScan(d, display_height, i - 1, i)

\* _on_network_chain_event reloading on a new block as on a reorg.
OnNetworkChainEventAlwaysReloads(d, b, old_chain, new_chain, local_height, source_lines) ==
    IF old_chain = "" THEN Unchanged(d, b)
    ELSE update_all(d, b, source_lines)

\* old_chain is "" for a falsy chain; local_height and source_lines are what
\* the wallet answers.
_on_network_chain_event(d, b, old_chain, new_chain, local_height, source_lines) ==
    IF old_chain = "" THEN Unchanged(d, b)
    ELSE IF old_chain = new_chain
         THEN LET start_row == StartRowScan(d, local_height, Len(d) - 1, -1)
              IN  [Unchanged(d, b) EXCEPT !.emitted =
                      IF start_row # -1
                      THEN << Signal("dataChanged", start_row, Len(d) - 1,
                                     ICON_COLUMN, STATUS_COLUMN, d, b) >>
                      ELSE <<>>]
         ELSE update_all(d, b, source_lines)

\* _on_new_transaction without its search for the hash.
OnNewTransactionUnchecked(d, b, tx_hash, tx_height, value) ==
    add_line(d, b, HistoryLine(tx_hash, tx_height[1], tx_height[3], value, 0))

_on_new_transaction(d, b, tx_hash, tx_height, value) ==
    IF \E i \in 1..Len(d) : d[i].tx_hash = tx_hash THEN Unchanged(d, b)
    ELSE add_line(d, b, HistoryLine(tx_hash, tx_height[1], tx_height[3], value, 0))

\* _on_history_update_event doing nothing at all while the view is disabled.
HistoryUpdateIgnoredWhileDisabled(d, b, is_enabled, event_name, fx_history, source_lines) ==
    IF ~is_enabled THEN Unchanged(d, b)
    ELSE IF event_name \in {"delete_invoice", "import_labels", "import_addresses",
                            "import_privkey"}
    THEN update_all(d, b, source_lines)
    ELSE Unchanged(d, b)

\* fx_history is app_state.fx and fx.show_history().
_on_history_update_event(d, b, is_enabled, event_name, fx_history, source_lines) ==
    IF ~is_enabled
    THEN (IF event_name = "activate" THEN update_all(d, b, source_lines)
          ELSE Unchanged(d, b))
    ELSE IF event_name = "fiat_ccy_changed"
    THEN [Unchanged(d, b) EXCEPT !.emitted =
             IF fx_history
             THEN << Signal("dataChanged", 0, Len(COLUMN_NAMES) - 1,
                            FIAT_AMOUNT_COLUMN, FIAT_BALANCE_COLUMN, d, b) >>
             ELSE <<>>]
    ELSE IF event_name \in {"num_zeros_changed", "base_unit_changed"}
    THEN [Unchanged(d, b) EXCEPT !.emitted =
             << Signal("dataChanged", 0, Len(d) - 1, AMOUNT_COLUMN, BALANCE_COLUMN, d, b) >>]
    ELSE IF event_name \in {"delete_invoice", "import_labels", "import_addresses",
                            "import_privkey"}
    THEN update_all(d, b, source_lines)
    ELSE Unchanged(d, b)

\* Whether the event reaches update_all, which reads the wallet.
Reloads(is_enabled, event_name) ==
    IF ~is_enabled THEN event_name = "activate"
    ELSE event_name \in {"delete_invoice", "import_labels", "import_addresses",
                         "import_privkey"}

RECURSIVE _on_labels_changed(_, _, _)
_on_labels_changed(d, b, updates) ==
    IF updates = <<>> THEN Unchanged(d, b)
    ELSE LET r == update_line(d, b, Head(updates), <<>>)
             rest == _on_labels_changed(r.data, r.balances, Tail(updates))
         IN  [rest EXCEPT !.emitted = r.emitted \o rest.emitted]

\* model.update_line(tx_hash, height, conf, timestamp): two arguments more
\* than HistoryItemModel.update_line takes.
update_transaction(d, b, tx_hash, tx_height) ==
    [Unchanged(d, b) EXCEPT !.raised = "TypeError"]

View_update_line(d, b, tx_hash, height, conf, timestamp) ==
    LET values == (LI_HEIGHT :> height) @@ (LI_TIMESTAMP :> timestamp)
        r == update_line(d, b, tx_hash, values)
    IN  [r EXCEPT !.ret = "None"]

\* _get_conf without its max(..., 0).
GetConfUnclamped(display_height, timestamp, height) ==
    IF timestamp # 0 THEN display_height - height + 1 ELSE 0

\* max(self._display_height - height + 1, 0) for a truthy timestamp
_get_conf(display_height, timestamp, height) ==
    IF timestamp # 0
    THEN (IF display_height - height + 1 > 0 THEN display_height - height + 1 ELSE 0)
    ELSE 0

\* _get_tx_status never asking the wallet for the transaction.
GetTxStatusWithoutLookup(has_received_transaction, tx_hash, height, conf, timestamp) ==
    IF conf = 0
    THEN (IF height < 0 THEN 0 ELSE IF height = 0 THEN 1 ELSE 2)
    ELSE 3 + (IF conf < 6 THEN conf ELSE 6)

\* has_received_transaction is what wallet.has_received_transaction(tx_hash)
\* answers when asked.
_get_tx_status(has_received_transaction, tx_hash, height, conf, timestamp) ==
    IF conf = 0
    THEN (IF ~has_received_transaction THEN 3
          ELSE IF height < 0 THEN 0
          ELSE IF height = 0 THEN 1
          ELSE 2)
    ELSE 3 + (IF conf < 6 THEN conf ELSE 6)

-----------------------------------------------------------------------------
(* The view driven by its events.                                          *)

\* HistoryView.__init__, with and without wait_for_load_event.
ViewInit ==
    \E wait_for_load_event \in BOOLEAN, source_lines \in WalletHistories,
       local_height \in ChainHeights :
        LET s == set_data(IF wait_for_load_event THEN <<>>
                          ELSE _create_data_snapshot(source_lines))
            h == IF wait_for_load_event THEN 0 ELSE local_height
        IN  /\ _data = s.data
            /\ _balances = s.balances
            /\ _height = h
            /\ _display_height = h
            /\ enabled = ~wait_for_load_event
            /\ op = Call("__init__", wait_for_load_event)
            /\ ret = "None"
            /\ raised = ""
            /\ emitted = <<>>
            /\ before = [data |-> <<>>, balances |-> <<>>]
            /\ nops = 0

OnNetworkChainEvent ==
    \E old_chain \in {"", "A"}, new_chain \in {"A", "B"},
       local_height \in ChainHeights, source_lines \in WalletHistories :
        LET reload == old_chain # "" /\ old_chain # new_chain
        IN  /\ reload \/ source_lines = <<>>
            /\ old_chain # "" \/ (new_chain = "A" /\ local_height = 5)
            /\ Leaves(_on_network_chain_event(_data, _balances, old_chain, new_chain,
                                              local_height, source_lines), reload)
            /\ _display_height' = IF old_chain = "" THEN _display_height ELSE local_height
            /\ _height' = IF old_chain = "" THEN _height ELSE local_height
            /\ op' = Call("_on_network_chain_event",
                          [old_chain |-> old_chain, new_chain |-> new_chain,
                           display_height |-> _display_height,
                           local_height |-> local_height,
                           source_lines |-> source_lines])
            /\ UNCHANGED enabled

OnNewTransaction ==
    \E tx_hash \in Ids, tx_height \in TxHeights, value \in Values :
        /\ Len(_data) < MaxRows \/ tx_hash \in { _data[i].tx_hash : i \in 1..Len(_data) }
        /\ Leaves(_on_new_transaction(_data, _balances, tx_hash, tx_height, value), FALSE)
        /\ op' = Call("_on_new_transaction", tx_hash)
        /\ UNCHANGED <<_height, _display_height, enabled>>

OnHistoryUpdateEvent ==
    \E event_name \in EventNames, fx_history \in BOOLEAN,
       local_height \in ChainHeights, source_lines \in WalletHistories :
        LET reload == Reloads(enabled, event_name)
        IN  /\ reload \/ (source_lines = <<>> /\ local_height = 5)
            /\ fx_history \/ event_name = "fiat_ccy_changed"
            /\ Leaves(_on_history_update_event(_data, _balances, enabled, event_name,
                                               fx_history, source_lines), reload)
            /\ _display_height' = IF reload THEN local_height ELSE _display_height
            /\ _height' = IF reload THEN local_height ELSE _height
            /\ enabled' = (enabled \/ event_name = "activate")
            /\ op' = Call("_on_history_update_event",
                          [event_name |-> event_name, source_lines |-> source_lines,
                           local_height |-> local_height])

OnLabelsChanged ==
    \E updates \in LabelUpdates :
        /\ Leaves(_on_labels_changed(_data, _balances, updates), FALSE)
        /\ op' = Call("_on_labels_changed", updates)
        /\ UNCHANGED <<_height, _display_height, enabled>>

UpdateTransaction ==
    \E tx_hash \in Ids, tx_height \in TxHeights :
        /\ Leaves(update_transaction(_data, _balances, tx_hash, tx_height), FALSE)
        /\ op' = Call("update_transaction",
                      [tx_hash |-> tx_hash, height |-> tx_height[1],
                       timestamp |-> tx_height[3]])
        /\ UNCHANGED <<_height, _display_height, enabled>>

ViewUpdateLine ==
    \E tx_hash \in Ids, tx_height \in TxHeights :
        /\ Leaves(View_update_line(_data, _balances, tx_hash, tx_height[1], tx_height[2],
                                   tx_height[3]), FALSE)
        /\ op' = Call("HistoryView.update_line",
                      [tx_hash |-> tx_hash, height |-> tx_height[1],
                       timestamp |-> tx_height[3]])
        /\ UNCHANGED <<_height, _display_height, enabled>>

ViewNext ==
    \/ OnNetworkChainEvent
    \/ OnNewTransaction
    \/ OnHistoryUpdateEvent
    \/ OnLabelsChanged
    \/ UpdateTransaction
    \/ ViewUpdateLine

ViewSpec == ViewInit /\ [][ViewNext]_vars

-----------------------------------------------------------------------------
(* Commands._setconfig_normalize_value, which test_commands.py exercises.  *)
(* A text is the sequence of its characters; a decoded value carries its   *)
(* Python type.                                                            *)

PyStr(t) == [type |-> "str", value |-> t]
PyInt(n) == [type |-> "int", value |-> n]
PyDecimal(t) == [type |-> "Decimal", value |-> t]
PyBool(v) == [type |-> "bool", value |-> v]
PyList(items) == [type |-> "list", value |-> items]

\* The texts of the tests.
Text7777 == <<"7", "7", "7", "7">>
TextQuoted7777 == <<"'", "7", "7", "7", "7", "'">>
Text2_3 == <<"2", ".", "3">>
Text_true == <<"t", "r", "u", "e">>
Text_True == <<"T", "r", "u", "e">>
Text2asd == <<"2", "a", "s", "d">>
TextUrl1 ==
    <<"f", "i", "l", "e", ":", "/", "/", "/", "v", "a", "r", "/", "w", "w", "w",
      "/">>
TextUrl2 ==
    <<"h", "t", "t", "p", "s", ":", "/", "/", "e", "l", "e", "c", "t", "r", "u",
      "m", "s", "v", ".", "i", "o">>
TextListSingleQuotes ==
    <<"[", "'", "f", "i", "l", "e", ":", "/", "/", "/", "v", "a", "r", "/", "w",
      "w", "w", "/", "'", ",", "'", "h", "t", "t", "p", "s", ":", "/", "/",
      "e", "l", "e", "c", "t", "r", "u", "m", "s", "v", ".", "i", "o", "'",
      "]">>
TextListDoubleQuotes ==
    <<"[", "\"", "f", "i", "l", "e", ":", "/", "/", "/", "v", "a", "r", "/", "w",
      "w", "w", "/", "\"", ",", "\"", "h", "t", "t", "p", "s", ":", "/", "/",
      "e", "l", "e", "c", "t", "r", "u", "m", "s", "v", ".", "i", "o", "\"",
      "]">>

ConfigTexts == { Text7777, TextQuoted7777, Text2_3, Text_true, Text_True, Text2asd,
                 TextListSingleQuotes, TextListDoubleQuotes }

ConfigKeys == { "rpcuser", "rpcpassword", "rpcport", "somekey", "show_console_tab",
                "url_rewrite" }

DigitValue ==
    ("0" :> 0) @@ ("1" :> 1) @@ ("2" :> 2) @@ ("3" :> 3) @@ ("4" :> 4) @@
    ("5" :> 5) @@ ("6" :> 6) @@ ("7" :> 7) @@ ("8" :> 8) @@ ("9" :> 9)

IsDigits(t) == Len(t) > 0 /\ \A i \in 1..Len(t) : t[i] \in DOMAIN DigitValue

RECURSIVE ToInt(_)
ToInt(t) ==
    IF t = <<>> THEN 0
    ELSE ToInt(SubSeq(t, 1, Len(t) - 1)) * 10 + DigitValue[t[Len(t)]]

IsDecimal(t) ==
    \E k \in 2..(Len(t) - 1) :
        /\ t[k] = "."
        /\ IsDigits(SubSeq(t, 1, k - 1))
        /\ IsDigits(SubSeq(t, k + 1, Len(t)))

\* t is a string literal in one of the quotes: the quote at both ends and
\* neither a quote nor an escape between them.
IsQuoted(t, quotes) ==
    /\ Len(t) >= 2
    /\ t[1] \in quotes /\ t[Len(t)] = t[1]
    /\ \A i \in 2..(Len(t) - 1) : t[i] # t[1] /\ t[i] # "\\"

Inner(t) == SubSeq(t, 2, Len(t) - 1)

\* The pieces of t between its commas.
RECURSIVE Split(_, _)
Split(t, piece) ==
    IF t = <<>> THEN <<piece>>
    ELSE IF Head(t) = "," THEN <<piece>> \o Split(Tail(t), <<>>)
         ELSE Split(Tail(t), Append(piece, Head(t)))

\* t is a list literal of string literals in the quotes.
IsList(t, quotes) ==
    /\ Len(t) >= 2 /\ t[1] = "[" /\ t[Len(t)] = "]"
    /\ LET pieces == Split(Inner(t), <<>>)
       IN  \A i \in 1..Len(pieces) : IsQuoted(pieces[i], quotes)

ListItems(t) ==
    LET pieces == Split(Inner(t), <<>>)
    IN  [i \in 1..Len(pieces) |-> PyStr(Inner(pieces[i]))]

\* json.loads(x, parse_float=Decimal), the text itself when that fails.
json_decode(t) ==
    IF IsDigits(t) THEN PyInt(ToInt(t))
    ELSE IF IsDecimal(t) THEN PyDecimal(t)
    ELSE IF t = <<"t", "r", "u", "e">> THEN PyBool(TRUE)
    ELSE IF t = <<"f", "a", "l", "s", "e">> THEN PyBool(FALSE)
    ELSE IF IsQuoted(t, {"\""}) THEN PyStr(Inner(t))
    ELSE IF IsList(t, {"\""}) THEN PyList(ListItems(t))
    ELSE PyStr(t)

\* ast.literal_eval(value), the value itself when that raises, as it does
\* for everything that is not a string holding a Python literal.
literal_eval(v) ==
    IF v.type # "str" THEN v
    ELSE LET t == v.value
         IN  IF IsDigits(t) THEN PyInt(ToInt(t))
             ELSE IF IsDecimal(t) THEN [type |-> "float", value |-> t]
             ELSE IF t = <<"T", "r", "u", "e">> THEN PyBool(TRUE)
             ELSE IF t = <<"F", "a", "l", "s", "e">> THEN PyBool(FALSE)
             ELSE IF IsQuoted(t, {"'", "\""}) THEN PyStr(Inner(t))
             ELSE IF IsList(t, {"'", "\""}) THEN PyList(ListItems(t))
             ELSE v

\* _setconfig_normalize_value decoding the credentials like the rest.
NormalizeDecodesCredentials(key, value) == literal_eval(json_decode(value))

_setconfig_normalize_value(key, value) ==
    IF key \notin {"rpcuser", "rpcpassword"}
    THEN literal_eval(json_decode(value))
    ELSE PyStr(value)

-----------------------------------------------------------------------------
(* The functions called on their own.                                      *)

\* Heights up to the realistic limit 1e9 on either side of zero.
KeyHeights == { -(BIG_CONSTANT - 1), -2, -1, 0, 1, 2, BIG_CONSTANT - 1 }

KeyLines == [tx_hash : {"tx1"}, height : KeyHeights, timestamp : Timestamps,
             value : {5}, position : {0, 1}]

\* The confirmation counts _get_conf yields, past the cap of 6.
Confs == 0..8

GetSortKey ==
    \E line \in KeyLines :
        /\ op' = Call("_get_sort_key", line)
        /\ ret' = _get_sort_key(line)
        /\ raised' = ""
        /\ UNCHANGED <<_data, _balances, _height, _display_height, enabled, emitted,
                       before, nops>>

GetTxStatus ==
    \E tx_hash \in {"tx1"}, has_received_transaction \in BOOLEAN,
       height \in {-2, -1, 0, 2}, conf \in Confs, timestamp \in Timestamps :
        /\ op' = Call("_get_tx_status",
                      [tx_hash |-> tx_hash, height |-> height, conf |-> conf,
                       timestamp |-> timestamp,
                       has_received_transaction |-> has_received_transaction])
        /\ ret' = _get_tx_status(has_received_transaction, tx_hash, height, conf, timestamp)
        /\ raised' = ""
        /\ UNCHANGED <<_data, _balances, _height, _display_height, enabled, emitted,
                       before, nops>>

SetconfigNormalizeValue ==
    \E key \in ConfigKeys, value \in ConfigTexts :
        /\ op' = Call("_setconfig_normalize_value", [key |-> key, value |-> value])
        /\ ret' = _setconfig_normalize_value(key, value)
        /\ raised' = ""
        /\ UNCHANGED <<_data, _balances, _height, _display_height, enabled, emitted,
                       before, nops>>

\* The heights of the lines data() is asked for, below and above the chain.
DataHeights == {-2, -1, 0, 1, 2, 9}

\* The chain heights data() reads them at.
DisplayHeights == {0, 5, 6, 7, 12}

\* HistoryItemModel.data for one line: the confirmation count, then the
\* status the icon and the status text are chosen by.
Data ==
    \E height \in DataHeights, timestamp \in Timestamps,
       display_height \in DisplayHeights, has_received_transaction \in BOOLEAN :
        LET line == HistoryLine("tx1", height, timestamp, 5, 0)
            conf == _get_conf(display_height, line.timestamp, line.height)
            status == _get_tx_status(has_received_transaction, line.tx_hash, line.height,
                                     conf, line.timestamp)
        IN  /\ op' = Call("data", [line |-> line, display_height |-> display_height,
                                   has_received_transaction |-> has_received_transaction])
            /\ ret' = [conf |-> conf, status |-> status]
            /\ raised' = ""
            /\ UNCHANGED <<_data, _balances, _height, _display_height, enabled, emitted,
                           before, nops>>

FunctionNext == GetSortKey \/ GetTxStatus \/ SetconfigNormalizeValue \/ Data

FunctionSpec == Init /\ [][FunctionNext]_vars

-----------------------------------------------------------------------------
(* The terms the properties below are stated in.                           *)

\* The sum of the values of rows 0..i-1.
RECURSIVE SumTo(_, _)
SumTo(d, i) == IF i = 0 THEN 0 ELSE SumTo(d, i - 1) + d[i].value

\* balances[i] is the sum of the values of records[0..i], for every row.
PrefixSums(d, b) ==
    /\ Len(b) = Len(d)
    /\ \A i \in 1..Len(d) : b[i] = SumTo(d, i)

\* The same for the rows before from_row only.
PrefixSumsBefore(d, b, from_row) ==
    /\ Len(b) = Len(d)
    /\ \A i \in 1..from_row : b[i] = SumTo(d, i)

\* balances[-1] is the sum of all values; no balance of an empty list is non-zero.
LastIsSum(d, b) ==
    IF Len(d) = 0 THEN \A i \in 1..Len(b) : b[i] = 0
    ELSE Len(b) > 0 /\ b[Len(b)] = SumTo(d, Len(d))

\* records is non-decreasing by sort key.
Sorted(d) ==
    \A i \in 1..(Len(d) - 1) : KeyGE(_get_sort_key(d[i + 1]), _get_sort_key(d[i]))

HashesOf(d) == { d[i].tx_hash : i \in 1..Len(d) }

DistinctHashes(d) == \A i, j \in 1..Len(d) : d[i].tx_hash = d[j].tx_hash => i = j

Returned == raised = ""

\* The last call was HistoryItemModel.update_line, directly or from the view.
Updated == op.name \in {"update_line", "HistoryView.update_line"}

UpdValues ==
    IF op.name = "update_line" THEN op.arg.values
    ELSE (LI_HEIGHT :> op.arg.height) @@ (LI_TIMESTAMP :> op.arg.timestamp)

\* The row that update found, the line it held and the line the changes make of it.
UpdRow == _get_row(before.data, op.arg.tx_hash)
UpdOld == before.data[UpdRow + 1]
UpdNew == ApplyValues(UpdOld, UpdValues)
UpdFound == Updated /\ UpdRow # -1
UpdKeyChanged == UpdFound /\ _get_sort_key(UpdOld) # _get_sort_key(UpdNew)
UpdKeyKept == UpdFound /\ _get_sort_key(UpdOld) = _get_sort_key(UpdNew)
UpdValueKept == Updated /\ (UpdRow # -1 => UpdNew.value = UpdOld.value)

\* The row add_line chose, as its rowsInserted signal tells it.
Added == op.name = "add_line"
AddRow == emitted[2].top

-----------------------------------------------------------------------------
(* C1 as stated: after every completed load (set_data), insert (add_line), *)
(* update (update_line) or remove (_remove_line) the last entry of         *)
(* balances is the sum of the values of all records, and an empty          *)
(* projection has no non-zero balance.                                     *)
C1_LastBalanceAfterEveryOperation ==
    (Returned /\ op.name \in {"set_data", "add_line", "update_line", "_remove_line"})
        => LastIsSum(_data, _balances)

(* C1 as amended: a load always, and an insert or an update that finds     *)
(* balances equal to the prefix sums and does not change a value while     *)
(* keeping the sort key, completes with the last entry of balances equal   *)
(* to the sum of all values; so does a recomputation (_calculate_balances) *)
(* from a row before which the balances are the prefix sums, which is what *)
(* restores the equality after _remove_line.                               *)
C1_LastBalanceIsSum ==
    /\ op.name = "set_data" => Returned /\ LastIsSum(_data, _balances)
    /\ (Added /\ PrefixSums(before.data, before.balances))
        => Returned /\ LastIsSum(_data, _balances)
    /\ (op.name = "update_line" /\ PrefixSums(before.data, before.balances)
            /\ (UpdKeyChanged \/ UpdValueKept))
        => Returned /\ LastIsSum(_data, _balances)
    /\ (op.name = "_calculate_balances"
            /\ PrefixSumsBefore(before.data, before.balances, op.arg))
        => Returned /\ LastIsSum(_data, _balances)

\* An update that changed both the sort key and the value of the first of
\* three rows, and left the last balance right.
C1_Witness ==
    /\ op.name = "update_line" /\ Returned
    /\ PrefixSums(before.data, before.balances)
    /\ Len(_data) = 3 /\ UpdRow = 0 /\ UpdKeyChanged
    /\ UpdNew.value # UpdOld.value
    /\ _data[1] # before.data[1]
    /\ LastIsSum(_data, _balances)

-----------------------------------------------------------------------------
(* C2: after a load, and after an insert or an update that does not change *)
(* a record's value (it may move the record) applied to balances that are  *)
(* the prefix sums, as these operations leave them, the call completes and *)
(* balances[i] is the sum of the values of records[0..i] for every row i.  *)
C2_BalancesArePrefixSums ==
    /\ op.name = "set_data" => Returned /\ PrefixSums(_data, _balances)
    /\ (Added /\ PrefixSums(before.data, before.balances))
        => Returned /\ PrefixSums(_data, _balances)
    /\ (op.name = "update_line" /\ UpdValueKept /\ PrefixSums(before.data, before.balances))
        => Returned /\ PrefixSums(_data, _balances)

\* An update that moved the first of three rows to the end by a change of
\* height and timestamp.
C2_Witness ==
    /\ op.name = "update_line" /\ UpdKeyChanged /\ UpdValueKept
    /\ PrefixSums(before.data, before.balances)
    /\ Len(_data) = 3 /\ UpdRow = 0 /\ _data[3] = UpdNew
    /\ _balances # before.balances
    /\ PrefixSums(_data, _balances)

-----------------------------------------------------------------------------
\* The lines of d are those of e, each as often.
SameLines(d, e) ==
    /\ Len(d) = Len(e)
    /\ \A i \in 1..Len(d) :
          Cardinality({j \in 1..Len(d) : d[j] = d[i]})
              = Cardinality({j \in 1..Len(e) : e[j] = d[i]})

(* C3 as stated: load accepts records in any order; after load(X) the      *)
(* records are a permutation of X sorted non-decreasing by sort key, and   *)
(* balances holds the prefix sums of the values in that order.             *)
C3_LoadSorts ==
    op.name = "set_data"
        => /\ SameLines(_data, op.arg)
           /\ Sorted(_data)
           /\ PrefixSums(_data, _balances)

-----------------------------------------------------------------------------
(* C4: an insert (add_line) or an update (update_line, with or without a   *)
(* change of sort key) applied to records that are non-decreasing by sort  *)
(* key leaves them non-decreasing by sort key.                             *)
C4_SortedIsKept ==
    (op.name \in {"add_line", "update_line"} /\ Sorted(before.data)) => Sorted(_data)

\* An update moved the last of three sorted rows to the front.
C4_Witness ==
    /\ op.name = "update_line" /\ UpdKeyChanged
    /\ Sorted(before.data) /\ Len(before.data) = 3
    /\ UpdRow = 2 /\ _data[1] = UpdNew
    /\ _get_sort_key(_data[2]) # _get_sort_key(_data[1])
    /\ Sorted(_data)

-----------------------------------------------------------------------------
(* C5: records and balances have the same length in every state, those in  *)
(* which a rows-inserted, rows-removed or data-changed signal is delivered *)
(* inside an insert or an update included.                                 *)
C5_SameLength ==
    /\ Len(_data) = Len(_balances)
    /\ \A i \in 1..Len(emitted) : Len(emitted[i].data) = Len(emitted[i].balances)

\* An update that moved a row delivered rowsRemoved with two rows left and
\* rowsInserted with three.
C5_Witness ==
    /\ op.name = "update_line" /\ Len(emitted) = 4
    /\ emitted[2].signal = "rowsRemoved" /\ Len(emitted[2].data) = 2
    /\ emitted[4].signal = "rowsInserted" /\ Len(emitted[4].balances) = 3

-----------------------------------------------------------------------------
(* C6: with every load supplying pairwise distinct ids, the ids in records *)
(* stay pairwise distinct under the view's events (new transaction, height *)
(* and timestamp update, label refresh, chain event, history update); a    *)
(* new-transaction event for an id already present leaves records and      *)
(* balances unchanged.                                                     *)
C6_IdsStayDistinct ==
    /\ DistinctHashes(_data)
    /\ (op.name = "_on_new_transaction" /\ op.arg \in HashesOf(before.data))
        => /\ _data = before.data
           /\ _balances = before.balances
           /\ emitted = <<>>

\* A new-transaction event for the id of the second of two rows.
C6_Witness ==
    /\ op.name = "_on_new_transaction"
    /\ Len(before.data) = 2 /\ before.data[2].tx_hash = op.arg
    /\ _data = before.data

-----------------------------------------------------------------------------
(* C7 as stated: add_line for a record whose id is already present signals *)
(* an error and adds no second record with that id: records and balances   *)
(* are left as they were.                                                  *)
C7_DuplicateInsertRejected ==
    (Added /\ op.arg.tx_hash \in HashesOf(before.data))
        => /\ ~Returned
           /\ _data = before.data
           /\ _balances = before.balances

-----------------------------------------------------------------------------
(* C8: add_line puts the new record at the row right after the last        *)
(* existing record whose sort key is less than or equal to the new key     *)
(* (row 0 when there is none), leaving the other records in their order;   *)
(* so it comes after every existing record with an equal key.              *)
C8_InsertAfterLastNotGreater ==
    Added =>
        LET new_key == _get_sort_key(op.arg)
            old == before.data
        IN  /\ AddRow \in 0..Len(old)
            /\ Len(_data) = Len(old) + 1
            /\ _data[AddRow + 1] = op.arg
            /\ \A j \in 1..Len(old) :
                  _data[IF j <= AddRow THEN j ELSE j + 1] = old[j]
            /\ AddRow > 0 => KeyGE(new_key, _get_sort_key(old[AddRow]))
            /\ \A j \in (AddRow + 1)..Len(old) : ~KeyGE(new_key, _get_sort_key(old[j]))
            /\ \A j \in 1..Len(old) : _get_sort_key(old[j]) = new_key => j <= AddRow

\* The second call after a load inserted B right after a record of another
\* id with the same key and before a record with a greater key.
C8_Witness ==
    /\ Added /\ nops = 2
    /\ AddRow >= 1 /\ AddRow < Len(before.data)
    /\ _get_sort_key(before.data[AddRow]) = _get_sort_key(op.arg)
    /\ before.data[AddRow].tx_hash # op.arg.tx_hash
    /\ _data[AddRow + 1] = op.arg

-----------------------------------------------------------------------------
(* C9: after add_line of a record whose id was not present, _get_row(id)   *)
(* is the row add_line chose and the record at that row is the inserted    *)
(* one.                                                                    *)
C9_InsertThenFind ==
    (Added /\ op.arg.tx_hash \notin HashesOf(before.data))
        => /\ _get_row(_data, op.arg.tx_hash) = AddRow
           /\ _data[_get_row(_data, op.arg.tx_hash) + 1] = op.arg

\* A record with a new id went in front of two rows and is found at row 0.
C9_Witness ==
    /\ Added /\ op.arg.tx_hash \notin HashesOf(before.data)
    /\ Len(before.data) = 2 /\ AddRow = 0
    /\ _get_row(_data, op.arg.tx_hash) = 0

-----------------------------------------------------------------------------
(* C10: an update of a present id whose changes leave the sort key as it   *)
(* was (no changes at all included) returns True, keeps the record at its  *)
(* row, emits one dataChanged for that row alone, and leaves the other     *)
(* records, their order and the whole balances array unchanged.            *)
C10_UpdateInPlace ==
    (op.name = "update_line" /\ UpdKeyKept)
        => /\ Returned /\ ret = "True"
           /\ Len(emitted) = 1
           /\ emitted[1].signal = "dataChanged"
           /\ emitted[1].top = UpdRow /\ emitted[1].bottom = UpdRow
           /\ _balances = before.balances
           /\ Len(_data) = Len(before.data)
           /\ \A i \in 1..Len(_data) :
                 _data[i] = IF i = UpdRow + 1 THEN UpdNew ELSE before.data[i]

\* An update changed a field of the second of three rows and not its key.
C10_Witness ==
    /\ op.name = "update_line" /\ UpdKeyKept
    /\ Len(_data) = 3 /\ UpdRow = 1
    /\ UpdNew # UpdOld /\ _data[2] = UpdNew
    /\ Len(emitted) = 1

-----------------------------------------------------------------------------
\* Row r is inside the rows of a signal delivered once the change it tells
\* of was made (rowsInserted, rowsRemoved, dataChanged).
Reported(r) ==
    \E i \in 1..Len(emitted) :
        /\ emitted[i].signal \in {"rowsInserted", "rowsRemoved", "dataChanged"}
        /\ emitted[i].top <= r /\ r <= emitted[i].bottom

\* Row r holds another record or another balance than before the call.
RowDiffers(r) ==
    \/ r >= Len(before.data) \/ r >= Len(_data)
    \/ _data[r + 1] # before.data[r + 1]
    \/ _balances[r + 1] # before.balances[r + 1]

(* C11 as stated: an update whose changes alter the sort key of a record   *)
(* (of a sorted list of distinct ids, with balances the prefix sums) moves *)
(* the record to its sorted position, recomputes the balances from         *)
(* min(old_row, new_row) on, and reports a row range spanning the old and  *)
(* the new position, so that every row whose record or balance differs     *)
(* from before the update is reported.                                     *)
C11_MoveReportsEveryChangedRow ==
    (op.name = "update_line" /\ UpdKeyChanged /\ Returned
        /\ DistinctHashes(before.data) /\ Sorted(before.data)
        /\ PrefixSums(before.data, before.balances))
    => LET new_row == _get_row(_data, op.arg.tx_hash)
           lo == IF new_row < UpdRow THEN new_row ELSE UpdRow
           hi == IF new_row < UpdRow THEN UpdRow ELSE new_row
       IN  /\ _data[new_row + 1] = UpdNew /\ Sorted(_data)
           /\ \A i \in 1..lo : _balances[i] = before.balances[i]
           /\ \A i \in (lo + 1)..Len(_data) : _balances[i] = SumTo(_data, i)
           /\ \E i \in 1..Len(emitted) :
                 /\ emitted[i].signal = "dataChanged"
                 /\ emitted[i].top <= lo /\ hi <= emitted[i].bottom
           /\ \A r \in 0..(Len(_data) - 1) : RowDiffers(r) => Reported(r)

-----------------------------------------------------------------------------
(* C12: a completed add_line emits dataChanged for the balance column of   *)
(* rows insert_row..len-1; the records and balances of the rows before     *)
(* insert_row are as they were, and every row whose balance differs from   *)
(* before lies in that range.                                              *)
C12_InsertReportsTailBalances ==
    (Added /\ Returned)
    => /\ Len(emitted) = 3
       /\ emitted[3].signal = "dataChanged"
       /\ emitted[3].top = AddRow /\ emitted[3].bottom = Len(_data) - 1
       /\ emitted[3].left = BALANCE_COLUMN /\ emitted[3].right = BALANCE_COLUMN
       /\ \A i \in 1..AddRow :
             _data[i] = before.data[i] /\ _balances[i] = before.balances[i]
       /\ \A r \in 0..(Len(_data) - 1) :
             (r >= Len(before.balances) \/ _balances[r + 1] # before.balances[r + 1])
                 => (emitted[3].top <= r /\ r <= emitted[3].bottom)

\* A record went between two rows: the balance of the row before it is kept
\* and those of the two rows from it on are new.
C12_Witness ==
    /\ Added /\ Returned
    /\ Len(before.data) = 2 /\ AddRow = 1
    /\ _balances[1] = before.balances[1]
    /\ _balances[2] # before.balances[2]
    /\ emitted[3].top = 1 /\ emitted[3].bottom = 2

-----------------------------------------------------------------------------
(* C13: update_line for an id that no record has returns False without     *)
(* raising, leaves records and balances as they were and emits no signal.  *)
C13_UpdateOfAbsentId ==
    (op.name = "update_line" /\ op.arg.tx_hash \notin HashesOf(before.data))
    => /\ Returned /\ ret = "False"
       /\ _data = before.data
       /\ _balances = before.balances
       /\ emitted = <<>>

\* An update with field changes for an id that neither of two rows has.
C13_Witness ==
    /\ op.name = "update_line" /\ op.arg.tx_hash \notin HashesOf(before.data)
    /\ Len(before.data) = 2 /\ DOMAIN op.arg.values # {}
    /\ ret = "False" /\ _data = before.data

-----------------------------------------------------------------------------
\* s is t without the element at row.
Without(s, t, row) ==
    /\ Len(s) = Len(t) - 1
    /\ \A j \in 1..Len(s) : s[j] = t[IF j <= row THEN j ELSE j + 1]

(* C14: _remove_line(row) returns the record at row and leaves records and *)
(* balances without exactly that row, the other rows in their order; and   *)
(* when the balances were the prefix sums before it, _calculate_balances   *)
(* from the removed row, run next, completes and leaves every balance the  *)
(* prefix sum of the remaining values, whichever row was removed.          *)
C14_RemoveThenRecompute ==
    /\ [](op.name = "_remove_line"
            => /\ ret = before.data[op.arg + 1]
               /\ Without(_data, before.data, op.arg)
               /\ Without(_balances, before.balances, op.arg))
    /\ [][(/\ op.name = "_remove_line"
           /\ PrefixSums(before.data, before.balances)
           /\ op'.name = "_calculate_balances" /\ op'.arg = op.arg)
          => (/\ raised' = ""
              /\ _data' = _data
              /\ PrefixSums(_data', _balances'))]_vars

\* A recomputation from row 0 found two records whose balances were still
\* those of three rows with the first deleted, each off by the removed
\* value, and made them the prefix sums.
C14_Witness ==
    /\ op.name = "_calculate_balances" /\ op.arg = 0 /\ nops = 2
    /\ Len(before.data) = 2
    /\ \E v \in Values :
          \A i \in 1..2 : before.balances[i] = v + SumTo(before.data, i)
    /\ _balances # before.balances
    /\ PrefixSums(_data, _balances)

-----------------------------------------------------------------------------
\* The key of a record with height 0 and no timestamp.
UnconfirmedKey == _get_sort_key(HistoryLine("tx1", 0, 0, 5, 0))

(* C15 as stated: the sort key of a record with height 0 and no timestamp  *)
(* is greater than or equal to the sort key of every other record, of any  *)
(* height of magnitude below BIG_CONSTANT, with or without a timestamp, at *)
(* any position.                                                           *)
C15_UnconfirmedSortsLast ==
    op.name = "_get_sort_key" => KeyGE(UnconfirmedKey, ret)

(* C15 as amended: that key is greater than or equal to the key of every   *)
(* record that has a timestamp or a height of -1 or more; a record with no *)
(* timestamp and a height of -2 or less has a greater key and sorts after  *)
(* it.                                                                     *)
C15_UnconfirmedSortsAfterConfirmed ==
    op.name = "_get_sort_key"
    => /\ (op.arg.timestamp # 0 \/ op.arg.height >= -1) => KeyGE(UnconfirmedKey, ret)
       /\ (op.arg.timestamp = 0 /\ op.arg.height <= -2) => ~KeyGE(UnconfirmedKey, ret)

\* The key of a record with no timestamp and height -1 was computed: it is
\* the key of height 0 itself.
C15_Witness ==
    /\ op.name = "_get_sort_key"
    /\ op.arg.timestamp = 0 /\ op.arg.height = -1
    /\ ret = UnconfirmedKey

-----------------------------------------------------------------------------
(* C17 as stated: for a record whose transaction the wallet cannot         *)
(* resolve, _get_tx_status does not raise and returns status 3, whatever   *)
(* the height and the confirmation count.                                  *)
C17_UnresolvedIsStatus3 ==
    (op.name = "_get_tx_status" /\ ~op.arg.has_received_transaction)
    => (raised = "" /\ ret = 3)

(* C17 as amended: _get_tx_status never raises; for a record with no       *)
(* confirmations whose transaction the wallet cannot resolve it returns    *)
(* status 3 whatever the height; for a record with confirmations the       *)
(* wallet is not asked and the status is 3 + min(conf, 6), resolvable or   *)
(* not.                                                                    *)
C17_UnresolvedUnconfirmedIsStatus3 ==
    op.name = "_get_tx_status"
    => /\ raised = ""
       /\ (op.arg.conf = 0 /\ ~op.arg.has_received_transaction) => ret = 3
       /\ op.arg.conf > 0 => ret = 3 + (IF op.arg.conf < 6 THEN op.arg.conf ELSE 6)

\* The status of an unresolvable record with a negative height and no
\* confirmations was derived.
C17_Witness ==
    /\ op.name = "_get_tx_status"
    /\ ~op.arg.has_received_transaction
    /\ op.arg.conf = 0 /\ op.arg.height < 0
    /\ ret = 3

-----------------------------------------------------------------------------
(* C16: after set_data(X) the records are X and the balances the running   *)
(* sums of X, whatever the model held and whichever calls were made        *)
(* before; and set_data(X) made right after set_data(X) leaves records and *)
(* balances as the first left them.                                        *)
C16_LoadDependsOnInputOnly ==
    /\ [](op.name = "set_data"
            => /\ Returned
               /\ _data = op.arg
               /\ Len(_balances) = Len(op.arg)
               /\ \A i \in 1..Len(op.arg) : _balances[i] = SumTo(op.arg, i))
    /\ [][(op.name = "set_data" /\ op'.name = "set_data" /\ op'.arg = op.arg)
          => (_data' = _data /\ _balances' = _balances)]_vars

\* Three unconfirmed-tailed rows were loaded.
C16_Witness ==
    /\ op.name = "set_data" /\ Len(op.arg) = 3
    /\ _data = op.arg
    /\ _balances = <<5, 3, 8>>

-----------------------------------------------------------------------------
\* What the tests expect of a key that is no credential.
ExpectedOfText(t) ==
    CASE t = Text7777 -> PyInt(7777)
      [] t = TextQuoted7777 -> PyStr(Text7777)
      [] t = Text2_3 -> PyDecimal(Text2_3)
      [] t = Text_true -> PyBool(TRUE)
      [] t = Text_True -> PyBool(TRUE)
      [] t = TextListSingleQuotes -> PyList(<<PyStr(TextUrl1), PyStr(TextUrl2)>>)
      [] t = TextListDoubleQuotes -> PyList(<<PyStr(TextUrl1), PyStr(TextUrl2)>>)

-----------------------------------------------------------------------------
\* The status data() derives for a line at a chain height.
StatusAt(line, display_height, has_received_transaction) ==
    _get_tx_status(has_received_transaction, line.tx_hash, line.height,
                   _get_conf(display_height, line.timestamp, line.height), line.timestamp)

(* C19 as stated: when a chain event tells of one new block on the same    *)
(* chain and the records are sorted by sort key, every row whose derived   *)
(* status differs between the previous and the new chain height lies in    *)
(* the rows of the dataChanged the view emits, also with unconfirmed       *)
(* records at the tail.                                                    *)
C19_NewBlockReportsChangedStatuses ==
    (/\ op.name = "_on_network_chain_event"
     /\ op.arg.old_chain = op.arg.new_chain
     /\ op.arg.local_height = op.arg.display_height + 1
     /\ Sorted(_data))
    => \A r \in 0..(Len(_data) - 1), has_received_transaction \in BOOLEAN :
          StatusAt(_data[r + 1], op.arg.display_height, has_received_transaction)
              # StatusAt(_data[r + 1], op.arg.local_height, has_received_transaction)
          => Reported(r)

-----------------------------------------------------------------------------
(* C20 as stated: at every signal the model delivers once a change is made *)
(* inside add_line or update_line (rowsInserted, rowsRemoved, dataChanged) *)
(* on balances that were the prefix sums, the balances an observer reads   *)
(* are the prefix sums of the records it reads: no observer sees a         *)
(* placeholder balance or stale tail balances.                             *)
C20_ObserversSeePrefixSums ==
    (op.name \in {"add_line", "update_line"}
        /\ PrefixSums(before.data, before.balances))
    => \A i \in 1..Len(emitted) :
          emitted[i].signal \in {"rowsInserted", "rowsRemoved", "dataChanged"}
              => PrefixSums(emitted[i].data, emitted[i].balances)

-----------------------------------------------------------------------------
(* C21: for 0 < from_row <= len(records), with balances[0..from_row-1] the *)
(* prefix sums of the records, _calculate_balances(from_row) completes     *)
(* with the balances a recomputation from row 0 gives, and leaves          *)
(* balances[0..from_row-1] as they were.                                   *)
C21_PartialEqualsFull ==
    (op.name = "_calculate_balances" /\ op.arg > 0
        /\ PrefixSumsBefore(before.data, before.balances, op.arg))
    => /\ Returned
       /\ _balances = _calculate_balances(before.data, before.balances, 0).balances
       /\ PrefixSums(_data, _balances)
       /\ \A i \in 1..op.arg : _balances[i] = before.balances[i]

\* A recomputation from row 1 of three found the balances of rows 1 and 2
\* stale and that of row 0 right.
C21_Witness ==
    /\ op.name = "_calculate_balances" /\ op.arg = 1
    /\ Len(before.data) = 3
    /\ PrefixSumsBefore(before.data, before.balances, 1)
    /\ before.balances[2] # _balances[2] /\ before.balances[3] # _balances[3]
    /\ _balances[1] = before.balances[1]
    /\ PrefixSums(_data, _balances)

-----------------------------------------------------------------------------
(* C22 as stated: update_transaction(id) for an id the projection holds    *)
(* (distinct ids, sorted, balances the prefix sums) completes without      *)
(* error and sets the height and the timestamp of that record to what      *)
(* wallet.get_tx_height(id) answers, leaving the records sorted and the    *)
(* balances the prefix sums.                                               *)
C22_UpdateTransactionUpdates ==
    (/\ op.name = "update_transaction"
     /\ op.arg.tx_hash \in HashesOf(before.data)
     /\ DistinctHashes(before.data) /\ Sorted(before.data)
     /\ PrefixSums(before.data, before.balances))
    => /\ Returned
       /\ \E i \in 1..Len(_data) :
             /\ _data[i].tx_hash = op.arg.tx_hash
             /\ _data[i].height = op.arg.height
             /\ _data[i].timestamp = op.arg.timestamp
       /\ Sorted(_data)
       /\ PrefixSums(_data, _balances)

-----------------------------------------------------------------------------
\* The lines a load makes of what wallet.get_history answers.
LinesOf(source_lines) ==
    [i \in 1..Len(source_lines) |->
        [tx_hash |-> source_lines[i][1], height |-> source_lines[i][2],
         timestamp |-> source_lines[i][4], value |-> source_lines[i][5], position |-> 0]]

\* The projection is a fresh load of source_lines.
FreshLoadOf(d, b, source_lines) ==
    /\ d = LinesOf(source_lines)
    /\ PrefixSums(d, b)

(* C23: a view created waiting for its load event is disabled and empty;   *)
(* while it is disabled a history-update event other than 'activate'       *)
(* leaves it disabled and the records and balances as they are, and        *)
(* 'activate' enables it and makes records and balances a load of the      *)
(* wallet's history at that moment, whatever new-transaction, label,       *)
(* chain or other events came while it was disabled.                       *)
C23_ActivateLoadsSnapshot ==
    /\ [](op.name = "__init__" /\ op.arg
            => ~enabled /\ _data = <<>> /\ _balances = <<>>)
    /\ [][(~enabled /\ op'.name = "_on_history_update_event")
          => IF op'.arg.event_name = "activate"
             THEN /\ enabled'
                  /\ raised' = ""
                  /\ FreshLoadOf(_data', _balances', op'.arg.source_lines)
             ELSE /\ ~enabled'
                  /\ _data' = _data /\ _balances' = _balances]_vars

\* 'activate' reached a disabled view and loaded three rows.
C23_Witness ==
    /\ op.name = "_on_history_update_event" /\ op.arg.event_name = "activate"
    /\ Len(emitted) = 1 /\ emitted[1].signal = "modelReset"
    /\ enabled
    /\ Len(_data) = 3 /\ FreshLoadOf(_data, _balances, op.arg.source_lines)

-----------------------------------------------------------------------------
(* C24: a chain event for a new block (old and new chain the same) leaves  *)
(* the records, their order and the balances as they were and stores the   *)
(* new chain height; a chain event for another chain (a reorg) makes the   *)
(* projection a fresh load of the wallet's history.                        *)
C24_NewBlockKeepsRecords ==
    (op.name = "_on_network_chain_event" /\ op.arg.old_chain # "")
    => /\ _height = op.arg.local_height /\ _display_height = op.arg.local_height
       /\ IF op.arg.old_chain = op.arg.new_chain
          THEN _data = before.data /\ _balances = before.balances
          ELSE /\ FreshLoadOf(_data, _balances, op.arg.source_lines)
               /\ Len(emitted) = 1 /\ emitted[1].signal = "modelReset"

\* A new block came for a projection of three rows and took the height
\* from 5 to 6.
C24_Witness ==
    /\ op.name = "_on_network_chain_event"
    /\ op.arg.old_chain = "A" /\ op.arg.new_chain = "A"
    /\ op.arg.display_height = 5 /\ _height = 6
    /\ Len(_data) = 3 /\ _data = before.data /\ _balances = before.balances

-----------------------------------------------------------------------------
(* C25: under the events the view delivers to the model (a full reload, a  *)
(* new transaction, an update of height and timestamp, a label refresh, a  *)
(* chain event) _calculate_balances never raises 'Invalid balance          *)
(* detected'.                                                              *)
C25_NoInvalidBalance ==
    raised # "Invalid balance detected"

\* An update of height and timestamp moved the first of three rows to the
\* end, which recomputed every balance, and returned.
C25_Witness ==
    /\ op.name = "HistoryView.update_line" /\ Returned
    /\ Len(before.data) = 3
    /\ before.data[1].tx_hash = op.arg.tx_hash
    /\ _data[3].tx_hash = op.arg.tx_hash
    /\ _balances # before.balances

-----------------------------------------------------------------------------
(* C26: for every record and chain height the confirmation count derived   *)
(* is 0 without a timestamp and max(chain_height - height + 1, 0) with     *)
(* one, so never negative; the status derived from it is an index into     *)
(* the 10 icons of TX_ICONS, and for a count above 0 it is                 *)
(* 3 + min(count, 6), the same for every count of 6 or more.               *)
C26_ConfAndStatusInRange ==
    op.name = "data"
    => LET line == op.arg.line
           depth == op.arg.display_height - line.height + 1
       IN  /\ line.timestamp = 0 => ret.conf = 0
           /\ (line.timestamp # 0 /\ depth >= 0) => ret.conf = depth
           /\ (line.timestamp # 0 /\ depth < 0) => ret.conf = 0
           /\ ret.conf >= 0
           /\ ret.status \in 0..(Len(TX_ICONS) - 1)
           /\ (ret.conf > 0 /\ ret.conf < 6) => ret.status = 3 + ret.conf
           /\ ret.conf >= 6 => ret.status = 9

\* A record with a timestamp and a height above the chain height got no
\* confirmations and an unconfirmed status.
C26_Witness ==
    /\ op.name = "data"
    /\ op.arg.line.timestamp # 0
    /\ op.arg.line.height = 9 /\ op.arg.display_height = 6
    /\ ret.conf = 0 /\ ret.status \in {2, 3}

====
